---- MODULE Spec2Model ----
(***************************************************************************)
(* A model of backend.py, the HTTP facade over the market-data provider.   *)
(*                                                                         *)
(* Strings whose characters the code inspects (symbols, exchange codes,    *)
(* search queries) are sequences of one-character strings; tokens the code *)
(* only compares for equality (period, interval) are plain strings.        *)
(* Python's None is the record None for values and the token NoneTok for   *)
(* optional string parameters.                                             *)
(***************************************************************************)
EXTENDS Integers, Sequences, FiniteSets, TLC

VARIABLES
    cache,          \* lru_cache of get_stock_data: entries, least recently used first
    upstreamCalls,  \* per key: provider history requests issued by get_stock_data
    inserts,        \* per key: times an entry for the key was written to the cache
    useOrder,       \* keys in order of their last use (call that hit or inserted)
    stored,         \* per key: the value written at the key's latest insertion
    nCalls,         \* number of get_stock_data calls made so far
    last,           \* what the most recent get_stock_data call did
    pc,             \* per request thread: where it is inside get_stock_data
    tkey,           \* per request thread: the key of its call in progress
    tres,           \* per request thread: what the body of its call returned
    produced,       \* per key: the values the body has returned so far
    dnow,           \* the current time, in days
    dres,           \* the latest get_date_range call: its arguments and result
    resp,           \* the latest HTTP response and what the handler saw on the way
    reqLog,         \* the provider requests the latest HTTP request issued, in order
    nReq            \* number of HTTP requests served so far

fetchVars == <<cache, upstreamCalls, inserts, useOrder, stored, nCalls, last>>

concVars == <<pc, tkey, tres, produced>>

dateVars == <<dnow, dres>>

httpVars == <<resp, reqLog, nReq>>

vars == <<fetchVars, concVars, dateVars, httpVars>>

---------------------------------------------------------------------------
(* Bounds of the model *)

\* Capacity of the cache. The source sets maxsize=1000 (backend.py:12); the
\* model runs the same policy with a small capacity so that eviction happens.
maxsize == 2

\* A provider series has 0..MaxRows rows; 0 rows is an empty DataFrame.
MaxRows == 1

\* Number of get_stock_data calls in one run of the sequential specification.
MaxCalls == 5

\* Request threads that run get_stock_data concurrently, and the number of
\* calls they make in one run of the concurrent specification.
NThreads == 2

MaxConcCalls == 3

\* Number of HTTP requests in one run of a handler specification.
MaxRequests == 2

\* The clock runs over the days 0..MaxDay.
MaxDay == 4

---------------------------------------------------------------------------
(* Values *)

AAPL == <<"A", "A", "P", "L">>
MSFT == <<"M", "S", "F", "T">>

\* Cache keys are the argument triples (ticker, period, interval).
Keys == {<<t, p, "1d">> : t \in {AAPL, MSFT}, p \in {"30d", "1y"}}

None == [kind |-> "None"]

\* A DataFrame the provider returned for a history request.
Frame(k, n) == [kind |-> "frame", key |-> k, rows |-> n]

\* What the provider does with one history request: raise, or return n rows.
Outcomes ==
    {[raises |-> TRUE, rows |-> 0]} \cup {[raises |-> FALSE, rows |-> n] : n \in 0..MaxRows}

---------------------------------------------------------------------------
(* Strings *)

\* Python's None for an optional string parameter: a one-element sequence
\* whose element is no character.
NoneStr == <<"<None>">>

\* Python's None for an optional period token.
NoneTok == "<None>"

UpperChars == <<"A", "B", "C", "D", "E", "F", "G", "H", "I", "J", "K", "L", "M",
                "N", "O", "P", "Q", "R", "S", "T", "U", "V", "W", "X", "Y", "Z">>

LowerChars == <<"a", "b", "c", "d", "e", "f", "g", "h", "i", "j", "k", "l", "m",
                "n", "o", "p", "q", "r", "s", "t", "u", "v", "w", "x", "y", "z">>

LowerChar(ch) ==
    IF \E i \in 1..26 : UpperChars[i] = ch
    THEN LowerChars[CHOOSE i \in 1..26 : UpperChars[i] = ch]
    ELSE ch

\* str.lower()
Lower(s) == [i \in 1..Len(s) |-> LowerChar(s[i])]

\* str.endswith(suffix)
EndsWith(s, suffix) ==
    /\ Len(suffix) <= Len(s)
    /\ SubSeq(s, Len(s) - Len(suffix) + 1, Len(s)) = suffix

\* str.split(","): the pieces between the commas, empty ones included.
RECURSIVE SplitComma(_)
SplitComma(s) ==
    IF \E i \in 1..Len(s) : s[i] = ","
    THEN LET i == CHOOSE j \in 1..Len(s) :
                      s[j] = "," /\ \A h \in 1..(j - 1) : s[h] # ","
         IN  <<SubSeq(s, 1, i - 1)>> \o SplitComma(SubSeq(s, i + 1, Len(s)))
    ELSE <<s>>

\* str.strip(), with the blank as the only whitespace character.
RECURSIVE Strip(_)
Strip(s) ==
    IF s # <<>> /\ s[1] = " " THEN Strip(Tail(s))
    ELSE IF s # <<>> /\ s[Len(s)] = " " THEN Strip(SubSeq(s, 1, Len(s) - 1))
    ELSE s

Range(q) == {q[i] : i \in 1..Len(q)}

\* sub in s
Contains(s, sub) ==
    \E i \in 0..(Len(s) - Len(sub)) : SubSeq(s, i + 1, i + Len(sub)) = sub

\* s.replace(old, "") for an old that occurs at most once, at the end.
DropSuffix(s, old) ==
    IF EndsWith(s, old) /\ old # <<>> THEN SubSeq(s, 1, Len(s) - Len(old)) ELSE s

\* str.capitalize(): the first character upper, the rest lower.
UpperChar(ch) ==
    IF \E i \in 1..26 : LowerChars[i] = ch
    THEN UpperChars[CHOOSE i \in 1..26 : LowerChars[i] = ch]
    ELSE ch

Capitalize(s) ==
    [i \in 1..Len(s) |-> IF i = 1 THEN UpperChar(s[i]) ELSE LowerChar(s[i])]

Min(a, b) == IF a <= b THEN a ELSE b

Max(a, b) == IF a >= b THEN a ELSE b

\* q[:limit] for an integer limit: a negative limit counts from the end.
Slice(q, limit) ==
    IF limit >= 0
    THEN SubSeq(q, 1, Min(limit, Len(q)))
    ELSE SubSeq(q, 1, Max(Len(q) + limit, 0))

\* dict.get(key, default)
DictGet(d, key, default) == IF key \in DOMAIN d THEN d[key] ELSE default

---------------------------------------------------------------------------
(* The mapping tables *)

NoDays == [isNone |-> TRUE, val |-> 0]

Days(n) == [isNone |-> FALSE, val |-> n]

TIME_PERIODS ==
    ("30d" :> Days(30)) @@ ("90d" :> Days(90)) @@ ("1y" :> Days(365)) @@ ("all" :> NoDays)

EXCHANGE_MAPPING ==
    (<<"n", "s", "e">> :> <<".", "N", "S">>) @@
    (<<"b", "s", "e">> :> <<".", "B", "O">>) @@
    (<<"n", "a", "s", "d", "a", "q">> :> <<>>) @@
    (<<"n", "y", "s", "e">> :> <<>>)

\* INDICES_MAPPING, in the dictionary's order.
INDICES_ITEMS ==
    <<[key |-> <<"n", "i", "f", "t", "y", "5", "0">>,
       symbol |-> <<"^", "N", "S", "E", "I">>],
      [key |-> <<"s", "e", "n", "s", "e", "x">>,
       symbol |-> <<"^", "B", "S", "E", "S", "N">>],
      [key |-> <<"s", "p", "5", "0", "0">>,
       symbol |-> <<"^", "G", "S", "P", "C">>],
      [key |-> <<"d", "o", "w">>,
       symbol |-> <<"^", "D", "J", "I">>],
      [key |-> <<"n", "a", "s", "d", "a", "q">>,
       symbol |-> <<"^", "I", "X", "I", "C">>],
      [key |-> <<"f", "t", "s", "e">>,
       symbol |-> <<"^", "F", "T", "S", "E">>],
      [key |-> <<"n", "i", "k", "k", "e", "i">>,
       symbol |-> <<"^", "N", "2", "2", "5">>]>>

INDICES_MAPPING ==
    [k \in {INDICES_ITEMS[i].key : i \in 1..Len(INDICES_ITEMS)} |->
        INDICES_ITEMS[CHOOSE i \in 1..Len(INDICES_ITEMS) : INDICES_ITEMS[i].key = k].symbol]

\* FOREX_MAPPING, in the dictionary's order.
FOREX_ITEMS ==
    <<[key |-> <<"u", "s", "d", "_", "i", "n", "r">>,
       symbol |-> <<"U", "S", "D", "/", "I", "N", "R", "=", "X">>],
      [key |-> <<"e", "u", "r", "_", "i", "n", "r">>,
       symbol |-> <<"E", "U", "R", "/", "I", "N", "R", "=", "X">>],
      [key |-> <<"g", "b", "p", "_", "u", "s", "d">>,
       symbol |-> <<"G", "B", "P", "/", "U", "S", "D", "=", "X">>],
      [key |-> <<"e", "u", "r", "_", "u", "s", "d">>,
       symbol |-> <<"E", "U", "R", "/", "U", "S", "D", "=", "X">>],
      [key |-> <<"j", "p", "y", "_", "u", "s", "d">>,
       symbol |-> <<"J", "P", "Y", "/", "U", "S", "D", "=", "X">>]>>

FOREX_MAPPING ==
    [k \in {FOREX_ITEMS[i].key : i \in 1..Len(FOREX_ITEMS)} |->
        FOREX_ITEMS[CHOOSE i \in 1..Len(FOREX_ITEMS) : FOREX_ITEMS[i].key = k].symbol]

---------------------------------------------------------------------------
(* get_date_range: times are counted in days *)

\* Variant: a default window of 30 days.
get_date_range_default30(period, now) ==
    LET days == DictGet(TIME_PERIODS, period, Days(30))
    IN  [start |-> IF days.isNone THEN NoDays ELSE Days(now - days.val),
         end |-> now]

\* get_date_range(period) at the time now.
get_date_range(period, now) ==
    LET days == DictGet(TIME_PERIODS, period, Days(90))
    IN  [start |-> IF days.isNone THEN NoDays ELSE Days(now - days.val),
         end |-> now]

---------------------------------------------------------------------------
(* get_stock_data and the lru_cache around it *)

\* The body of get_stock_data: the provider's series, or None when it raises.
Fetch(k, o) == IF o.raises THEN None ELSE Frame(k, o.rows)

InCache(c, k) == \E i \in 1..Len(c) : c[i].key = k

CacheIndex(c, k) == CHOOSE i \in 1..Len(c) : c[i].key = k

CacheVal(c, k) == c[CacheIndex(c, k)].val

Remove(c, i) == [j \in 1..(Len(c) - 1) |-> IF j < i THEN c[j] ELSE c[j + 1]]

\* Variant: a hit that leaves the order alone, which makes eviction
\* first-in first-out.
CacheHitNoTouch(c, k) == c

\* A hit moves the entry to the most-recently-used end.
CacheHit(c, k) ==
    LET i == CacheIndex(c, k)
    IN  Append(Remove(c, i), c[i])

\* Variant: a store that replaces the value of a key stored meanwhile.
CacheStoreOverwrite(c, k, v) ==
    IF InCache(c, k)
    THEN [c EXCEPT ![CacheIndex(c, k)] = [key |-> k, val |-> v]]
    ELSE IF Len(c) >= maxsize
         THEN Append(Tail(c), [key |-> k, val |-> v])
         ELSE Append(c, [key |-> k, val |-> v])

\* Storing the result of a miss: a key that another call stored meanwhile is
\* left as it is; a full cache drops its oldest entry first.
CacheStore(c, k, v) ==
    IF InCache(c, k)
    THEN c
    ELSE IF Len(c) >= maxsize
         THEN Append(Tail(c), [key |-> k, val |-> v])
         ELSE Append(c, [key |-> k, val |-> v])

\* Variant: a cache that keeps no None and so retries a failed key.
get_stock_data_skip_none(c, k, o) ==
    IF InCache(c, k) /\ CacheVal(c, k) # None
    THEN [cache |-> CacheHit(c, k), ret |-> CacheVal(c, k), hit |-> TRUE]
    ELSE LET v == Fetch(k, o)
         IN  [cache |-> IF v = None THEN c ELSE CacheStore(c, k, v),
              ret |-> v, hit |-> FALSE]

\* Variant: the body runs on every call, cached key or not.
get_stock_data_uncached(c, k, o) ==
    LET v == Fetch(k, o)
    IN  [cache |-> IF InCache(c, k) THEN CacheHit(c, k) ELSE CacheStore(c, k, v),
         ret |-> v, hit |-> FALSE]

\* A call on the decorated function does not ask the provider on a hit, and
\* whatever the body returned, None included, is what the cache keeps.
get_stock_data(c, k, o) ==
    IF InCache(c, k)
    THEN [cache |-> CacheHit(c, k), ret |-> CacheVal(c, k), hit |-> TRUE]
    ELSE LET v == Fetch(k, o)
         IN  [cache |-> CacheStore(c, k, v), ret |-> v, hit |-> FALSE]

---------------------------------------------------------------------------
(* Sequential calls of get_stock_data *)

Touch(order, k) == Append(SelectSeq(order, LAMBDA x : x # k), k)

\* The entry for k in c2 was written by the step from c to c2.
Written(c, c2, k) ==
    InCache(c2, k) /\ (~InCache(c, k) \/ CacheVal(c, k) # CacheVal(c2, k))

\* The keys that the step from c to c2 removed from the cache.
Evicted(c, c2) == {k \in Keys : InCache(c, k) /\ ~InCache(c2, k)}

NoCall ==
    [key |-> <<>>, ret |-> None, hit |-> FALSE,
     provider |-> [raises |-> TRUE, rows |-> 0], evicted |-> {}]

Threads == 1..NThreads

InitConc ==
    /\ pc = [t \in Threads |-> "idle"]
    /\ tkey = [t \in Threads |-> <<>>]
    /\ tres = [t \in Threads |-> None]
    /\ produced = [k \in Keys |-> {}]

InitDate ==
    /\ dnow = 0
    /\ dres = [called |-> FALSE, period |-> NoneTok, now |-> 0, start |-> NoDays, end |-> 0]

NoResponse == [handler |-> "none", status |-> 0]

InitHttp ==
    /\ resp = NoResponse
    /\ reqLog = <<>>
    /\ nReq = 0

Init ==
    /\ InitConc
    /\ InitDate
    /\ InitHttp
    /\ cache = <<>>
    /\ upstreamCalls = [k \in Keys |-> 0]
    /\ inserts = [k \in Keys |-> 0]
    /\ useOrder = <<>>
    /\ stored = [k \in Keys |-> None]
    /\ nCalls = 0
    /\ last = NoCall

\* One call get_stock_data(k) while the provider would answer o.
Call(k, o) ==
    /\ nCalls < MaxCalls
    /\ LET r == get_stock_data(cache, k, o)
       IN  /\ cache' = r.cache
           /\ upstreamCalls' =
                 [upstreamCalls EXCEPT ![k] = IF r.hit THEN @ ELSE @ + 1]
           /\ inserts' =
                 [inserts EXCEPT ![k] = IF Written(cache, r.cache, k) THEN @ + 1 ELSE @]
           /\ stored' =
                 [stored EXCEPT ![k] =
                     IF Written(cache, r.cache, k) THEN CacheVal(r.cache, k) ELSE @]
           /\ last' = [key |-> k, ret |-> r.ret, hit |-> r.hit, provider |-> o,
                       evicted |-> Evicted(cache, r.cache)]
    /\ useOrder' = Touch(useOrder, k)
    /\ nCalls' = nCalls + 1
    /\ UNCHANGED <<concVars, dateVars, httpVars>>

Next == \E k \in Keys, o \in Outcomes : Call(k, o)

Spec == Init /\ [][Next]_vars

---------------------------------------------------------------------------
(* Claims about get_stock_data under Spec *)

\* The step is a call of get_stock_data with key k.
IsCall(k) == nCalls' = nCalls + 1 /\ last'.key = k

\* C2: a provider failure on a miss makes get_stock_data return None, the
\* None is memoized, and while the entry is cached every later call with the
\* key returns None and issues no provider request, also when the provider
\* would answer again.
C2_FailureMemoized ==
    [][\A k \in Keys :
        IsCall(k) =>
          /\ (~InCache(cache, k) /\ last'.provider.raises) =>
                (last'.ret = None /\ InCache(cache', k) /\ CacheVal(cache', k) = None)
          /\ (InCache(cache, k) /\ CacheVal(cache, k) = None) =>
                /\ last'.ret = None
                /\ upstreamCalls' = upstreamCalls
                /\ InCache(cache', k) /\ CacheVal(cache', k) = None]_vars

\* A call hit a memoized failure although the provider had recovered.
C2_Witness ==
    last.key \in Keys /\ last.hit /\ last.ret = None /\ ~last.provider.raises

\* C3: a call whose key is cached issues no provider request and returns the
\* value stored at the key's insertion; per key, the provider requests number
\* the insertions.
C3_NoSecondUpstream ==
    /\ [](\A k \in Keys : upstreamCalls[k] = inserts[k])
    /\ [][\A k \in Keys :
            (IsCall(k) /\ InCache(cache, k)) =>
              /\ upstreamCalls' = upstreamCalls
              /\ inserts' = inserts
              /\ last'.ret = stored[k]]_vars

\* A key was inserted, evicted, inserted again and then hit.
C3_Witness ==
    \E k \in Keys : last.key = k /\ last.hit /\ inserts[k] = 2 /\ upstreamCalls[k] = 2

\* The cached key whose last use is the oldest.
LeastRecent(order, c) ==
    order[CHOOSE i \in 1..Len(order) :
            /\ InCache(c, order[i])
            /\ \A j \in 1..(i - 1) : ~InCache(c, order[j])]

\* C10: the cache never holds more than maxsize entries; an entry leaves the
\* cache only in a step that inserts a new key into a full cache, and it is
\* then the least recently used one; an entry that stays keeps its value.
C10_LruEviction ==
    /\ [](Len(cache) <= maxsize)
    /\ [][\A k \in Keys :
            InCache(cache, k) =>
              IF InCache(cache', k)
              THEN CacheVal(cache', k) = CacheVal(cache, k)
              ELSE /\ Len(cache) = maxsize
                   /\ ~InCache(cache, last'.key)
                   /\ InCache(cache', last'.key)
                   /\ k = LeastRecent(useOrder, cache)]_vars

\* A call evicted an entry that was not the oldest insertion: a hit had
\* refreshed the oldest one.
C10_Witness ==
    /\ Len(cache) = maxsize
    /\ last.evicted # {}
    /\ \E k \in Keys : InCache(cache, k) /\ last.key # k /\ upstreamCalls[k] = 1
          /\ \A e \in last.evicted : e # k
    /\ nCalls > maxsize + 1

---------------------------------------------------------------------------
(* Concurrent calls of get_stock_data: the handlers are plain functions, *)
(* which the server runs on a pool of threads. The lookup and the store  *)
(* of lru_cache are each atomic; the body runs between them, unlocked.   *)

\* Thread t calls get_stock_data(k) and finds the key cached.
Hit(t, k) ==
    /\ pc[t] = "idle" /\ nCalls < MaxConcCalls
    /\ InCache(cache, k)
    /\ cache' = CacheHit(cache, k)
    /\ last' = [key |-> k, ret |-> CacheVal(cache, k), hit |-> TRUE,
                provider |-> NoCall.provider, evicted |-> {}]
    /\ nCalls' = nCalls + 1
    /\ UNCHANGED <<upstreamCalls, inserts, useOrder, stored, concVars>>
    /\ UNCHANGED <<dateVars, httpVars>>

\* Thread t calls get_stock_data(k), misses and enters the body.
Miss(t, k) ==
    /\ pc[t] = "idle" /\ nCalls < MaxConcCalls
    /\ ~InCache(cache, k)
    /\ pc' = [pc EXCEPT ![t] = "body"]
    /\ tkey' = [tkey EXCEPT ![t] = k]
    /\ nCalls' = nCalls + 1
    /\ UNCHANGED <<cache, upstreamCalls, inserts, useOrder, stored, last, tres, produced>>
    /\ UNCHANGED <<dateVars, httpVars>>

\* The provider answers the history request of thread t.
Body(t, o) ==
    /\ pc[t] = "body"
    /\ tres' = [tres EXCEPT ![t] = Fetch(tkey[t], o)]
    /\ produced' = [produced EXCEPT ![tkey[t]] = @ \cup {Fetch(tkey[t], o)}]
    /\ upstreamCalls' = [upstreamCalls EXCEPT ![tkey[t]] = @ + 1]
    /\ pc' = [pc EXCEPT ![t] = "store"]
    /\ UNCHANGED <<cache, inserts, useOrder, stored, nCalls, last, tkey>>
    /\ UNCHANGED <<dateVars, httpVars>>

\* lru_cache stores the result of thread t and the call returns it.
Store(t) ==
    /\ pc[t] = "store"
    /\ cache' = CacheStore(cache, tkey[t], tres[t])
    /\ inserts' =
          [inserts EXCEPT ![tkey[t]] =
              IF Written(cache, cache', tkey[t]) THEN @ + 1 ELSE @]
    /\ last' = [key |-> tkey[t], ret |-> tres[t], hit |-> FALSE,
                provider |-> NoCall.provider, evicted |-> Evicted(cache, cache')]
    /\ pc' = [pc EXCEPT ![t] = "idle"]
    /\ UNCHANGED <<upstreamCalls, useOrder, stored, nCalls, tkey, tres, produced>>
    /\ UNCHANGED <<dateVars, httpVars>>

\* The keys the concurrent calls use.
ConcKeys == Keys \ {<<MSFT, "1y", "1d">>}

NextConcurrent ==
    \E t \in Threads :
        \/ \E k \in ConcKeys : Hit(t, k)
        \/ \E k \in ConcKeys : Miss(t, k)
        \/ \E o \in Outcomes : Body(t, o)
        \/ Store(t)

SpecConcurrent == Init /\ [][NextConcurrent]_vars

\* C9: under every interleaving each key has at most one entry, a cached
\* value is one the body returned for that very key, an entry that stays in
\* the cache keeps its value, and a hit returns a value the body returned for
\* its key.
C9_NoCorruption ==
    /\ [](/\ \A i, j \in 1..Len(cache) : cache[i].key = cache[j].key => i = j
          /\ \A i \in 1..Len(cache) :
                /\ cache[i].key \in Keys
                /\ cache[i].val \in produced[cache[i].key]
                /\ cache[i].val # None => cache[i].val.key = cache[i].key
          /\ last.hit => last.ret \in produced[last.key])
    /\ [][\A k \in Keys :
            (InCache(cache, k) /\ InCache(cache', k)) =>
                CacheVal(cache', k) = CacheVal(cache, k)]_vars

\* Two calls missed on the same key at once and each asked the provider; the
\* later store left the earlier entry alone, and a hit then returned it.
C9_Witness ==
    \E k \in Keys :
        /\ upstreamCalls[k] = 2 /\ inserts[k] = 1 /\ Len(cache) = 1
        /\ Cardinality(produced[k]) = 2
        /\ last.key = k /\ last.hit
        /\ \A t \in Threads : pc[t] = "idle"

---------------------------------------------------------------------------
(* get_date_range on its own *)

\* Period tokens a caller can pass: the enumerated ones and some others.
PeriodTokens == {"30d", "90d", "1y", "all", "7d", "ALL", "", NoneTok}

\* A day passes.
Tick ==
    /\ dnow < MaxDay
    /\ dnow' = dnow + 1
    /\ UNCHANGED <<fetchVars, concVars, httpVars, dres>>

\* get_date_range(p) is called at the current time.
DateRange(p) ==
    /\ LET r == get_date_range(p, dnow)
       IN  dres' = [called |-> TRUE, period |-> p, now |-> dnow,
                    start |-> r.start, end |-> r.end]
    /\ UNCHANGED <<fetchVars, concVars, httpVars, dnow>>

NextDate == Tick \/ \E p \in PeriodTokens : DateRange(p)

SpecDate == Init /\ [][NextDate]_vars

\* C6: get_date_range returns end = now and start = end - N days with N = 30
\* for "30d", 90 for "90d", 365 for "1y" and 90 for every token that is none
\* of 30d, 90d, 1y, all; start is None exactly for "all".
C6_DateRange ==
    dres.called =>
      /\ dres.end = dres.now
      /\ dres.period = "30d" => dres.start = Days(dres.end - 30)
      /\ dres.period = "90d" => dres.start = Days(dres.end - 90)
      /\ dres.period = "1y" => dres.start = Days(dres.end - 365)
      /\ dres.period \notin {"30d", "90d", "1y", "all"} =>
            dres.start = Days(dres.end - 90)
      /\ dres.start.isNone <=> dres.period = "all"

\* An unrecognised token was resolved, at a time after the first day.
C6_Witness ==
    /\ dres.called /\ dres.period = "7d" /\ dres.now > 0
    /\ dres.start = Days(dres.now - 90)

---------------------------------------------------------------------------
(* The series handlers: /stock, /forex, /index, /mutual-fund *)

\* What leaves a handler's try block: "none", the HTTPException the handler
\* raised itself, or any other exception. HTTPException is an Exception, so
\* the except clause catches it like the others and raises a 500 in its place.
TryExcept(exc) == IF exc = "none" THEN 200 ELSE 500

\* Variant: the direct call only after a miss whose fetch failed.
NeedDirectOnMissOnly(r) == r.ret = None /\ ~r.hit

\* The handlers call the provider directly when get_stock_data returned None.
NeedDirect(r) == r.ret = None

\* Variant: the suffix appended without looking at the symbol's end.
ApplyExchangeAlways(symbol, exchange) ==
    IF exchange # NoneStr /\ exchange # <<>> /\ Lower(exchange) \in DOMAIN EXCHANGE_MAPPING
    THEN symbol \o EXCHANGE_MAPPING[Lower(exchange)]
    ELSE symbol

\* The exchange suffix of the stock handler.
ApplyExchange(symbol, exchange) ==
    IF exchange # NoneStr /\ exchange # <<>> /\ Lower(exchange) \in DOMAIN EXCHANGE_MAPPING
    THEN IF ~EndsWith(symbol, EXCHANGE_MAPPING[Lower(exchange)])
         THEN symbol \o EXCHANGE_MAPPING[Lower(exchange)]
         ELSE symbol
    ELSE symbol

\* Provider requests, as the log keeps them.
HistoryReq(sym, period, interval) ==
    [kind |-> "history", symbol |-> sym, period |-> period, interval |-> interval]

DirectReq(sym, range, interval) ==
    [kind |-> "direct", symbol |-> sym, start |-> range.start, end |-> range.end,
     interval |-> interval]

InfoReq(sym) == [kind |-> "info", symbol |-> sym]

\* The cached fetch and the direct call that follows a None:
\*     data = get_stock_data(symbol, period=period, interval=interval)
\*     if data is None: data = ticker.history(start=..., end=..., interval=...)
\* The direct call may raise; a None left in data would raise at its first use.
FetchSeries(c, sym, period, interval, o1, o2, now) ==
    LET k == <<sym, period, interval>>
        r == get_stock_data(c, k, o1)
        direct == NeedDirect(r)
    IN  [cache |-> r.cache,
         hit |-> r.hit,
         cachedNone |-> InCache(c, k) /\ CacheVal(c, k) = None,
         gotNone |-> r.ret = None,
         direct |-> direct,
         raised |-> (direct /\ o2.raises) \/ (~direct /\ r.ret = None),
         data |-> IF direct THEN Frame(k, o2.rows) ELSE r.ret,
         log |-> (IF r.hit THEN <<>> ELSE <<HistoryReq(sym, period, interval)>>)
                 \o (IF direct
                     THEN <<DirectReq(sym, get_date_range(period, now), interval)>>
                     ELSE <<>>)]

\* The response of a series handler and the observations the claims use.
SeriesResponse(handler, given, sym, period, interval, f, fetched, metaCalled, metaFailed, exc) ==
    [handler |-> handler, status |-> TryExcept(exc), given |-> given, symbol |-> sym,
     period |-> period, interval |-> interval,
     fetched |-> fetched,
     hit |-> fetched /\ f.hit,
     cachedNone |-> fetched /\ f.cachedNone,
     gotNone |-> fetched /\ f.gotNone,
     direct |-> fetched /\ f.direct,
     metaCalled |-> metaCalled, metaFailed |-> metaFailed,
     empty |-> fetched /\ ~f.raised /\ f.data.rows = 0,
     rows |-> IF exc = "none" THEN f.data.rows ELSE 0]

\* get_stock_data_endpoint: the series first, the metadata after it.
get_stock_data_endpoint(c, symbol, period, interval, exchange, o1, o2, metaOK, now) ==
    LET sym == ApplyExchange(symbol, exchange)
        f == FetchSeries(c, sym, period, interval, o1, o2, now)
        metaCalled == ~f.raised
        exc == IF f.raised \/ ~metaOK THEN "Exception"
               ELSE IF f.data.rows = 0 THEN "HTTPException404"
               ELSE "none"
    IN  [cache |-> f.cache,
         log |-> f.log \o (IF metaCalled THEN <<InfoReq(sym)>> ELSE <<>>),
         resp |-> [exchange |-> exchange] @@
                  SeriesResponse("stock", symbol, sym, period, interval, f, TRUE,
                                 metaCalled, metaCalled /\ ~metaOK, exc)]

\* The handlers that ask for the metadata first and for the series after it.
InfoThenSeries(handler, c, given, sym, period, interval, o1, o2, metaOK, now) ==
    LET f == FetchSeries(c, sym, period, interval, o1, o2, now)
        exc == IF ~metaOK \/ f.raised THEN "Exception"
               ELSE IF f.data.rows = 0 THEN "HTTPException404"
               ELSE "none"
    IN  [cache |-> IF metaOK THEN f.cache ELSE c,
         log |-> <<InfoReq(sym)>> \o (IF metaOK THEN f.log ELSE <<>>),
         resp |-> SeriesResponse(handler, given, sym, period, interval, f, metaOK,
                                 TRUE, ~metaOK, exc)]

EqualsX == <<"=", "X">>

get_forex_data(c, pair, period, interval, o1, o2, metaOK, now) ==
    LET mapped == DictGet(FOREX_MAPPING, Lower(pair), pair)
        sym == IF ~EndsWith(mapped, EqualsX) THEN mapped \o EqualsX ELSE mapped
    IN  InfoThenSeries("forex", c, pair, sym, period, interval, o1, o2, metaOK, now)

get_index_data(c, symbol, period, interval, o1, o2, metaOK, now) ==
    LET actual_symbol == DictGet(INDICES_MAPPING, Lower(symbol), symbol)
    IN  InfoThenSeries("index", c, symbol, actual_symbol, period, interval, o1, o2,
                       metaOK, now)

get_mutual_fund_data(c, symbol, period, interval, o1, o2, metaOK, now) ==
    InfoThenSeries("mutual_fund", c, symbol, symbol, period, interval, o1, o2, metaOK, now)

---------------------------------------------------------------------------
(* /compare/ and the batch fetch *)

\* Symbols the provider has data for.
ValidSymbols == {<<"A">>, <<"B">>}

\* The columns of the frame a multi-symbol download returns.
Open == <<"O", "p", "e", "n">>
High == <<"H", "i", "g", "h">>
Low == <<"L", "o", "w">>
Close == <<"C", "l", "o", "s", "e">>
Volume == <<"V", "o", "l", "u", "m", "e">>
AdjClose == <<"A", "d", "j", " ", "C", "l", "o", "s", "e">>

\* The fields the fallback of compare_instruments copies, in its order.
CompareFields == <<Open, High, Low, Close, Volume>>

\* The tickers the grouped download has a column group for: every requested
\* ticker the provider knows, and the unknown ones unless it drops them.
BatchColumns(tickers, b) ==
    {t \in Range(tickers) : t \in ValidSymbols \/ ~b.dropUnknown}

\* Variant: a loop that stops one ticker short.
get_multiple_stocks_skip_last(tickers, b) ==
    IF b.raises \/ (Len(tickers) > 1 /\ \E t \in Range(tickers) : t \notin BatchColumns(tickers, b))
    THEN [isNone |-> TRUE, results |-> <<>>]
    ELSE [isNone |-> FALSE,
          results |-> [t \in Range(SubSeq(tickers, 1, Len(tickers) - 1)) |->
                          [kind |-> "frame", ticker |-> t, rows |-> b.rows]]]

\* get_multiple_stocks: None when the download or a column lookup raises.
get_multiple_stocks(tickers, b) ==
    IF b.raises \/ (Len(tickers) > 1 /\ \E t \in Range(tickers) : t \notin BatchColumns(tickers, b))
    THEN [isNone |-> TRUE, results |-> <<>>]
    ELSE [isNone |-> FALSE,
          results |-> [t \in Range(tickers) |->
                          [kind |-> "frame", ticker |-> t, rows |-> b.rows]]]

DownloadReq(tickers, how) == [kind |-> "download", tickers |-> tickers, how |-> how]

CompareResponse(symbol_list, period, interval, path, exc, data, f) ==
    [handler |-> "compare", status |-> TryExcept(exc), symbols |-> symbol_list,
     symbol |-> symbol_list[1], period |-> period, interval |-> interval,
     path |-> path,
     data |-> IF exc = "none" THEN data ELSE <<>>,
     fetched |-> path = "single",
     hit |-> path = "single" /\ f.hit,
     cachedNone |-> path = "single" /\ f.cachedNone,
     gotNone |-> path = "single" /\ f.gotNone,
     direct |-> path = "single" /\ f.direct]

\* compare_instruments: the batch fetch for several symbols, with the raw
\* download reshaped by field when the batch fetch gives nothing; the cached
\* fetch for a single symbol.
compare_instruments(c, symbols, period, interval, o1, o2, b, fb, now) ==
    LET symbol_list == [i \in 1..Len(SplitComma(symbols)) |-> Strip(SplitComma(symbols)[i])]
        f == FetchSeries(c, symbol_list[1], period, interval, o1, o2, now)
        result == get_multiple_stocks(symbol_list, b)
        useFallback == result.isNone \/ DOMAIN result.results = {}
        fbEmpty == fb.rows = 0 \/ fb.fields = {}
        byField == [fld \in {x \in Range(CompareFields) : x \in fb.fields} |->
                       [kind |-> "field", field |-> fld, rows |-> fb.rows]]
    IN  IF Len(symbol_list) > 1
        THEN IF useFallback
             THEN [cache |-> c,
                   log |-> <<DownloadReq(symbol_list, "grouped"),
                             DownloadReq(symbol_list, "raw")>>,
                   resp |-> CompareResponse(symbol_list, period, interval, "fallback",
                               IF fb.raises THEN "Exception"
                               ELSE IF fbEmpty THEN "HTTPException404"
                               ELSE "none",
                               byField, f)]
             ELSE [cache |-> c,
                   log |-> <<DownloadReq(symbol_list, "grouped")>>,
                   resp |-> CompareResponse(symbol_list, period, interval, "batch",
                               "none", result.results, f)]
        ELSE [cache |-> f.cache,
              log |-> f.log,
              resp |-> CompareResponse(symbol_list, period, interval, "single",
                          IF f.raised THEN "Exception" ELSE "none",
                          f.data, f)]

---------------------------------------------------------------------------
(* HTTP requests, one at a time *)

\* A handler ran: its cache, its response and its provider requests.
Served(h) ==
    /\ nReq < MaxRequests
    /\ nReq' = nReq + 1
    /\ cache' = h.cache
    /\ resp' = h.resp
    /\ reqLog' = h.log
    /\ UNCHANGED <<upstreamCalls, inserts, useOrder, stored, nCalls, last>>
    /\ UNCHANGED <<concVars, dateVars>>

StockRequest(symbol, exchange, period, interval, o1, o2, metaOK) ==
    Served(get_stock_data_endpoint(cache, symbol, period, interval, exchange,
                                   o1, o2, metaOK, dnow))

ForexRequest(pair, period, interval, o1, o2, metaOK) ==
    Served(get_forex_data(cache, pair, period, interval, o1, o2, metaOK, dnow))

IndexRequest(symbol, period, interval, o1, o2, metaOK) ==
    Served(get_index_data(cache, symbol, period, interval, o1, o2, metaOK, dnow))

MutualFundRequest(symbol, period, interval, o1, o2, metaOK) ==
    Served(get_mutual_fund_data(cache, symbol, period, interval, o1, o2, metaOK, dnow))

CompareRequest(symbols, period, interval, o1, o2, b, fb) ==
    Served(compare_instruments(cache, symbols, period, interval, o1, o2, b, fb, dnow))

---------------------------------------------------------------------------
(* /stock/{symbol} with its exchange parameter *)

TCS == <<"T", "C", "S">>

NSE == <<"n", "s", "e">>
BSE == <<"b", "s", "e">>
DotNS == <<".", "N", "S">>

\* The (symbol, exchange) pairs requested: bare and suffixed symbols, a symbol
\* shorter than the suffix, mapped exchanges in either case, the empty suffix,
\* an unmapped, an empty and an absent exchange.
StockInputs ==
    {<<TCS, NoneStr>>, <<TCS, <<>>>>, <<TCS, NSE>>, <<TCS \o DotNS, NSE>>,
     <<TCS \o DotNS, <<"N", "S", "E">>>>, <<TCS, BSE>>, <<TCS \o DotNS, BSE>>,
     <<TCS, <<"n", "a", "s", "d", "a", "q">>>>, <<TCS \o DotNS, <<"l", "s", "e">>>>,
     <<<<"N", "S">>, NSE>>}

NextStock ==
    \E in \in StockInputs, o1 \in Outcomes, o2 \in Outcomes, metaOK \in BOOLEAN :
        StockRequest(in[1], in[2], "90d", "1d", o1, o2, metaOK)

SpecStock == Init /\ [][NextStock]_vars

\* The suffix the given exchange maps to, stated without the table.
SuffixOf(exchange) ==
    CASE Lower(exchange) = <<"n", "s", "e">> -> <<".", "N", "S">>
      [] Lower(exchange) = <<"b", "s", "e">> -> <<".", "B", "O">>
      [] OTHER -> <<>>

\* C4: every provider request of a /stock request names the same symbol: the
\* given one when it already ends with the exchange's suffix (or the exchange
\* is absent or unmapped), else the given one followed by the suffix, once.
C4_ExchangeSuffix ==
    resp.handler = "stock" =>
      LET suffix == IF resp.exchange = NoneStr THEN <<>> ELSE SuffixOf(resp.exchange)
          n == Len(resp.given)
          m == Len(suffix)
          had == m <= n /\ \A i \in 1..m : resp.given[n - m + i] = suffix[i]
          want == IF had THEN resp.given ELSE resp.given \o suffix
      IN  /\ \A i \in 1..Len(reqLog) : reqLog[i].symbol = want
          /\ resp.symbol = want
          /\ reqLog # <<>>

\* RELIANCE-like cases: a bare symbol got the suffix, and a symbol that had
\* the suffix kept it single, with all three provider requests issued.
C4_Witness ==
    /\ resp.handler = "stock"
    /\ resp.given = TCS \o DotNS
    /\ resp.exchange = <<"N", "S", "E">>
    /\ resp.symbol = TCS \o DotNS
    /\ Len(reqLog) = 3

---------------------------------------------------------------------------
(* The five handlers that use get_stock_data, on one shared cache *)

USD_INR == <<"U", "S", "D", "_", "I", "N", "R">>
EURUSD == <<"E", "U", "R", "U", "S", "D">>
NIFTY50 == <<"N", "I", "F", "T", "Y", "5", "0">>
NSEI == <<"^", "N", "S", "E", "I">>
FUND == <<"0", "P", ".", "B", "O">>

\* Provider outcomes that a request does not consult.
NoOutcome == [raises |-> TRUE, rows |-> 0]

NoBatch == [raises |-> TRUE, dropUnknown |-> FALSE, rows |-> 0]

NoFallback == [raises |-> TRUE, rows |-> 0, fields |-> {}]

NextHandlers ==
    \E o1 \in Outcomes, o2 \in Outcomes, metaOK \in BOOLEAN :
        \/ \E exchange \in {NoneStr, NSE} :
              StockRequest(TCS, exchange, "90d", "1d", o1, o2, metaOK)
        \/ \E pair \in {USD_INR, EURUSD} :
              ForexRequest(pair, "90d", "1d", o1, o2, metaOK)
        \/ \E symbol \in {NIFTY50, NSEI} :
              IndexRequest(symbol, "90d", "1d", o1, o2, metaOK)
        \/ MutualFundRequest(FUND, "90d", "1d", o1, o2, metaOK)
        \/ /\ metaOK
           /\ CompareRequest(<<" ">> \o TCS, "90d", "1d", o1, o2, NoBatch, NoFallback)

SpecHandlers == Init /\ [][NextHandlers]_vars

SeriesHandlers == {"stock", "forex", "index", "mutual_fund"}

CountKind(log, kind) == Cardinality({i \in 1..Len(log) : log[i].kind = kind})

\* C1 as claimed: an empty series, the metadata call not having failed, is
\* answered with status 404.
C1_EmptySeriesIs404 ==
    (resp.handler \in SeriesHandlers /\ resp.empty /\ ~resp.metaFailed) =>
        resp.status = 404

\* C8 as claimed: a request whose key holds a memoized failure issues no
\* provider history request, a direct call happens only on a miss, and no
\* request issues more than one provider history request.
C8_NoDirectOnCachedFailure ==
    (resp.handler \in SeriesHandlers \cup {"compare"} /\ resp.fetched) =>
        LET n == CountKind(reqLog, "history") + CountKind(reqLog, "direct")
        IN  /\ resp.cachedNone => n = 0
            /\ CountKind(reqLog, "direct") = 1 => ~resp.hit
            /\ n <= 1

\* C8 amended: the direct provider call is made exactly when get_stock_data
\* returned None, fresh or memoized; a request whose key holds a memoized
\* failure issues exactly one provider history request, the direct one; a
\* request issues at most two provider history requests.
C8_DirectWhenNone ==
    (resp.handler \in SeriesHandlers \cup {"compare"} /\ resp.fetched) =>
        LET nHistory == CountKind(reqLog, "history")
            nDirect == CountKind(reqLog, "direct")
        IN  /\ nDirect = (IF resp.gotNone THEN 1 ELSE 0)
            /\ nHistory = (IF resp.hit THEN 0 ELSE 1)
            /\ resp.cachedNone => (resp.hit /\ resp.gotNone /\ nHistory = 0 /\ nDirect = 1)
            /\ nHistory + nDirect <= 2

\* A request found a memoized failure, called the provider directly and
\* answered 200 with the series of that call.
C8_Witness ==
    /\ resp.handler \in SeriesHandlers \cup {"compare"}
    /\ resp.fetched /\ resp.cachedNone
    /\ CountKind(reqLog, "direct") = 1 /\ CountKind(reqLog, "history") = 0
    /\ resp.status = 200

---------------------------------------------------------------------------
(* /compare/ *)

SymA == <<"A">>
SymB == <<"B">>

\* symbols parameters naming several symbols: plain, with blanks, repeated,
\* reordered, with a symbol the provider does not know, with an empty name.
MultiInputs ==
    {<<"A", ",", "B">>, <<"A", ",", " ", "B">>, <<"A", ",", "A">>,
     <<"B", ",", "A", ",", "B">>, <<"A", ",", "X">>, <<"A", ",">>}

SingleInputs == {<<"A">>, <<" ", "B", " ">>}

\* Column sets of the raw download.
FieldSets ==
    {{Open, High, Low, Close, Volume, AdjClose}, {Open, High, Low, Close, Volume},
     {Close, Volume}}

BatchOutcomes ==
    {NoBatch} \cup
    {[raises |-> FALSE, dropUnknown |-> d, rows |-> n] : d \in BOOLEAN, n \in 0..MaxRows}

FallbackOutcomes ==
    {NoFallback} \cup
    {[raises |-> FALSE, rows |-> n, fields |-> fs] : n \in 0..MaxRows, fs \in FieldSets}

NextCompare ==
    \/ \E symbols \in MultiInputs, b \in BatchOutcomes, fb \in FallbackOutcomes :
          CompareRequest(symbols, "90d", "1d", NoOutcome, NoOutcome, b, fb)
    \/ \E symbols \in SingleInputs, o1 \in Outcomes, o2 \in Outcomes :
          CompareRequest(symbols, "90d", "1d", o1, o2, NoBatch, NoFallback)

SpecCompare == Init /\ [][NextCompare]_vars

\* The request named two or more symbols, all known to the provider, and
\* was answered 200.
CompareOk ==
    /\ resp.handler = "compare" /\ resp.status = 200
    /\ Len(resp.symbols) >= 2
    /\ Range(resp.symbols) \subseteq ValidSymbols

\* C5 as claimed: on either path the keys of data are the requested symbols.
C5_KeysAreSymbols == CompareOk => DOMAIN resp.data = Range(resp.symbols)

\* C5 amended: when the batch fetch answered, the keys of data are exactly
\* the requested symbols and each maps to its own symbol's records; when the
\* handler fell back to the raw download, the keys of data are price fields
\* among Open, High, Low, Close, Volume.
C5_KeysByPath ==
    CompareOk =>
        IF resp.path = "batch"
        THEN /\ DOMAIN resp.data = Range(resp.symbols)
             /\ \A t \in DOMAIN resp.data : resp.data[t].ticker = t
        ELSE /\ resp.path = "fallback"
             /\ DOMAIN resp.data \subseteq Range(CompareFields)
             /\ \A fld \in DOMAIN resp.data : resp.data[fld].field = fld

\* "A, B" was served by the batch fetch: two keys, the blank stripped.
C5_Witness ==
    /\ CompareOk /\ resp.path = "batch"
    /\ resp.symbols = <<SymA, SymB>>
    /\ DOMAIN resp.data = {SymA, SymB}
    /\ resp.data[SymB].rows > 0

---------------------------------------------------------------------------
(* /search/ *)

\* Largest limit a search request passes; the smallest is -MaxLimit.
MaxLimit == 3

\* The exchange shown for a ticker of the stock search.
ExchangeOf(t) ==
    IF Contains(t.name, DotNS) THEN "NSE"
    ELSE IF Contains(t.name, <<".", "B", "O">>) THEN "BSE"
    ELSE IF t.exchange \in {"NMS", "NGS", "NCM", "NGM"} THEN "NASDAQ"
    ELSE IF t.exchange \in {"NYQ", "PSE", "PCX", "ASE", "AMX"} THEN "NYSE"
    ELSE ""

\* The stock matches: the provider's tickers whose info loads and says EQUITY.
RECURSIVE StockMatches(_)
StockMatches(tickers) ==
    IF tickers = <<>> THEN <<>>
    ELSE LET t == Head(tickers)
         IN  (IF ~t.infoRaises /\ t.quoteType = "EQUITY"
              THEN <<[symbol |-> t.name, name |-> t.shortName,
                      exchange |-> ExchangeOf(t), type |-> "stock"]>>
              ELSE <<>>)
             \o StockMatches(Tail(tickers))

\* The matches of a static table: the query, lower-cased, occurs in the key
\* or in the lower-cased symbol.
RECURSIVE TableMatches(_, _, _)
TableMatches(items, query, kind) ==
    IF items = <<>> THEN <<>>
    ELSE LET it == Head(items)
         IN  (IF Contains(it.key, Lower(query)) \/ Contains(Lower(it.symbol), Lower(query))
              THEN <<[symbol |-> it.symbol,
                      name |-> IF kind = "forex" THEN DropSuffix(it.symbol, EqualsX)
                               ELSE Capitalize(it.key),
                      type |-> kind]>>
              ELSE <<>>)
             \o TableMatches(Tail(items), query, kind)

\* search_instruments: tk is what yf.Tickers(query) gives.
search_instruments(query, limit, type, tk) ==
    LET wantStock == type = NoneTok \/ type = "stock"
        results ==
            (IF wantStock THEN StockMatches(tk.tickers) ELSE <<>>)
            \o (IF type = NoneTok \/ type = "forex"
                THEN TableMatches(FOREX_ITEMS, query, "forex") ELSE <<>>)
            \o (IF type = NoneTok \/ type = "index"
                THEN TableMatches(INDICES_ITEMS, query, "index") ELSE <<>>)
        exc == IF wantStock /\ tk.raises THEN "Exception" ELSE "none"
    IN  [cache |-> cache,
         log |-> IF wantStock THEN <<[kind |-> "tickers", symbol |-> query]>> ELSE <<>>,
         resp |-> [handler |-> "search", status |-> TryExcept(exc), query |-> query,
                   limit |-> limit, type |-> type,
                   full |-> IF exc = "none" THEN results ELSE <<>>,
                   results |-> IF exc = "none" THEN Slice(results, limit) ELSE <<>>]]

SearchRequest(query, limit, type, tk) ==
    Served(search_instruments(query, limit, type, tk))

Queries ==
    {<<"u", "s", "d">>, <<"U", "S", "D">>, <<"n">>, <<>>, <<"z", "z">>,
     <<"T", "C", "S", ".", "N", "S">>}

SearchTypes == {NoneTok, "stock", "forex", "index", "mutual_fund"}

\* What yf.Tickers can give: a failure, nothing, an NSE equity, a NASDAQ
\* equity with a fund and a ticker whose info fails to load.
TickerOutcomes ==
    {[raises |-> TRUE, tickers |-> <<>>],
     [raises |-> FALSE, tickers |-> <<>>],
     [raises |-> FALSE,
      tickers |-> <<[name |-> TCS \o DotNS, shortName |-> "Tata Consultancy",
                     infoRaises |-> FALSE, quoteType |-> "EQUITY", exchange |-> "NSI"]>>],
     [raises |-> FALSE,
      tickers |-> <<[name |-> AAPL, shortName |-> "Apple Inc.",
                     infoRaises |-> FALSE, quoteType |-> "EQUITY", exchange |-> "NMS"],
                    [name |-> FUND, shortName |-> "Fund",
                     infoRaises |-> FALSE, quoteType |-> "MUTUALFUND", exchange |-> "BSE"],
                    [name |-> MSFT, shortName |-> "Unknown",
                     infoRaises |-> TRUE, quoteType |-> "EQUITY", exchange |-> "NMS"]>>]}

NextSearch ==
    \E query \in Queries, limit \in (-MaxLimit)..MaxLimit, type \in SearchTypes,
       tk \in TickerOutcomes :
        SearchRequest(query, limit, type, tk)

SpecSearch == Init /\ [][NextSearch]_vars

\* C7 as claimed: the results are at most limit entries, the first
\* min(limit, total) of the full match list.
C7_TruncatedToLimit ==
    (resp.handler = "search" /\ resp.status = 200) =>
        /\ Len(resp.results) <= resp.limit
        /\ resp.results = SubSeq(resp.full, 1, Min(resp.limit, Len(resp.full)))

====
